---- MODULE Spec2Model ----
(***************************************************************************)
(* Model of server/vcr-server/api/v3/views/search.py:                      *)
(*   - TopicSearchQuerySet: __len__, count, _fill_cache (the LIMIT clamp)  *)
(*   - CredentialSearchView: valid_search_query, list, facets              *)
(*   - CredentialTopicSearchView (object_class = TopicSearchQuerySet)      *)
(* Three specifications share the module:                                  *)
(*   SpecQS    calls on a TopicSearchQuerySet                              *)
(*   SpecValid calls of valid_search_query on arbitrary Python values      *)
(*   Spec      HTTP requests handled by the two credential search views    *)
(***************************************************************************)
EXTENDS Integers, Sequences, FiniteSets

VARIABLES
    LIMIT,            \* module global read from settings (line 305)
    backend_count,    \* what the superclass __len__ / count reported
    qs_op,            \* the TopicSearchQuerySet method last called
    qs_args,          \* its arguments (start, end, kwargs)
    qs_ret,           \* its return value
    super_calls,      \* the super()._fill_cache calls it made, in order
    v_op,             \* "valid_search_query" once it was called
    v_query,          \* valid_search_query: argument query
    v_topic_id,       \* valid_search_query: argument topic_id
    v_ret,            \* valid_search_query: return value
    request,          \* the HTTP request last handled by a view
    response,         \* the handler's outcome (Response or raised APIException)
    backend_ops,      \* the backend operations the handler invoked, in order
    queryset,         \* facets(): local queryset
    facet_queryset,   \* facets(): local facet_queryset at the end of the handler
    result_queryset   \* facets(): local result_queryset

qsVars == <<LIMIT, backend_count, qs_op, qs_args, qs_ret, super_calls>>
validVars == <<v_op, v_query, v_topic_id, v_ret>>
viewVars == <<request, response, backend_ops, queryset, facet_queryset, result_queryset>>
vars == <<LIMIT, backend_count, qs_op, qs_args, qs_ret, super_calls,
          v_op, v_query, v_topic_id, v_ret,
          request, response, backend_ops, queryset, facet_queryset, result_queryset>>

----------------------------------------------------------------------------
(* Python values: None, int and str (a str is a sequence of characters).   *)

None == [type |-> "NoneType"]
PyInt(n) == [type |-> "int", n |-> n]
PyStr(s) == [type |-> "str", s |-> s]

IsNone(v) == v.type = "NoneType"
IsInt(v) == v.type = "int"
IsStr(v) == v.type = "str"

Min(a, b) == IF a <= b THEN a ELSE b

----------------------------------------------------------------------------
(* Bounds of the model.                                                    *)

\* configured ceilings tried besides the default: 0..MaxLimit
MaxLimit == 3
\* how far a requested bound or a backend count may exceed the ceiling
Over == 2
\* longest string handed to valid_search_query
MaxStrLen == 3
\* most query parameters in one request
MaxParams == 3

\* getattr(settings, "HAYSTACK_MAX_RESULTS", 200)
DefaultLimit == 200

Limits == (0..MaxLimit) \cup {DefaultLimit}

----------------------------------------------------------------------------
(* TopicSearchQuerySet                                                     *)

\* the mutants of __len__ and count: the clamp is missing
len_unclamped(super_len) == super_len

__len__(super_len) ==
    LET ret == super_len
    IN  IF ret > LIMIT THEN LIMIT ELSE ret

count_unclamped(super_count) == super_count

count(super_count) ==
    LET ret == super_count
    IN  IF ret > LIMIT THEN LIMIT ELSE ret

\* mutant of _fill_cache: only start is clamped
fill_cache_start_only(start, end, kwargs) ==
    LET start1 == IF ~IsNone(start) /\ start.n > LIMIT THEN PyInt(LIMIT) ELSE start
    IN  << [start |-> start1, end |-> end, kwargs |-> kwargs] >>

\* mutant of _fill_cache: a None bound is replaced by the ceiling
fill_cache_none_clamped(start, end, kwargs) ==
    LET start1 == IF IsNone(start) \/ start.n > LIMIT THEN PyInt(LIMIT) ELSE start
        end1   == IF IsNone(end) \/ end.n > LIMIT THEN PyInt(LIMIT) ELSE end
    IN  << [start |-> start1, end |-> end1, kwargs |-> kwargs] >>

\* mutant of _fill_cache: the keyword arguments are not forwarded
fill_cache_drop_kwargs(start, end, kwargs) ==
    LET start1 == IF ~IsNone(start) /\ start.n > LIMIT THEN PyInt(LIMIT) ELSE start
        end1   == IF ~IsNone(end) /\ end.n > LIMIT THEN PyInt(LIMIT) ELSE end
    IN  << [start |-> start1, end |-> end1, kwargs |-> {}] >>

\* _fill_cache(start, end, **kwargs): the super()._fill_cache calls it makes
_fill_cache(start, end, kwargs) ==
    LET start1 == IF ~IsNone(start)
                  THEN (IF start.n > LIMIT THEN PyInt(LIMIT) ELSE start)
                  ELSE start
        end1   == IF ~IsNone(end)
                  THEN (IF end.n > LIMIT THEN PyInt(LIMIT) ELSE end)
                  ELSE end
    IN  << [start |-> start1, end |-> end1, kwargs |-> kwargs] >>

\* the counts a backend may report and the bounds a caller may pass: haystack
\* passes None or a non-negative int (it refuses negative indexing)
Counts == 0..(LIMIT + Over)
Bounds == {None} \cup {PyInt(n) : n \in 0..(LIMIT + Over)}
Kwargs == {{}, {"load_all"}}

NoArgs == [start |-> None, end |-> None, kwargs |-> {}]

QSIdle ==
    /\ backend_count = 0
    /\ qs_op = "none"
    /\ qs_args = NoArgs
    /\ qs_ret = 0
    /\ super_calls = <<>>

CallLen ==
    /\ qs_op = "none"
    /\ \E c \in Counts :
        /\ backend_count' = c
        /\ qs_op' = "__len__"
        /\ qs_args' = NoArgs
        /\ qs_ret' = __len__(c)
        /\ super_calls' = <<>>
        /\ UNCHANGED <<LIMIT, validVars, viewVars>>

CallCount ==
    /\ qs_op = "none"
    /\ \E c \in Counts :
        /\ backend_count' = c
        /\ qs_op' = "count"
        /\ qs_args' = NoArgs
        /\ qs_ret' = count(c)
        /\ super_calls' = <<>>
        /\ UNCHANGED <<LIMIT, validVars, viewVars>>

CallFillCache ==
    /\ qs_op = "none"
    /\ \E start \in Bounds, end \in Bounds, kwargs \in Kwargs :
        /\ qs_op' = "_fill_cache"
        /\ qs_args' = [start |-> start, end |-> end, kwargs |-> kwargs]
        /\ super_calls' = _fill_cache(start, end, kwargs)
        /\ qs_ret' = 0
        /\ UNCHANGED <<LIMIT, backend_count, validVars, viewVars>>

\* the call returns to its caller; the query set is ready for the next call
ReturnQS ==
    /\ qs_op # "none"
    /\ backend_count' = 0
    /\ qs_op' = "none"
    /\ qs_args' = NoArgs
    /\ qs_ret' = 0
    /\ super_calls' = <<>>
    /\ UNCHANGED <<LIMIT, validVars, viewVars>>

----------------------------------------------------------------------------
(* CredentialSearchView.valid_search_query                                 *)

\* the characters str.strip() removes (those the model's strings can hold)
Whitespace == {" ", "\t"}

RECURSIVE lstrip(_)
lstrip(s) ==
    IF s = <<>> THEN s
    ELSE IF Head(s) \in Whitespace THEN lstrip(Tail(s)) ELSE s

RECURSIVE rstrip(_)
rstrip(s) ==
    IF s = <<>> THEN s
    ELSE IF s[Len(s)] \in Whitespace THEN rstrip(SubSeq(s, 1, Len(s) - 1)) ELSE s

\* str.strip()
strip(s) == rstrip(lstrip(s))

\* mutant of valid_search_query: a 2-character name is refused (> instead of >=)
valid_search_query_gt(query, topic_id) ==
    LET v1 == IsStr(query) /\ Len(strip(query.s)) > 2
        v2 == IsStr(topic_id) /\ Len(strip(topic_id.s)) > 0
    IN  v1 \/ v2

valid_search_query(query, topic_id) ==
    LET is_valid0 == FALSE
        is_valid1 == IF IsStr(query) /\ Len(strip(query.s)) >= 2
                     THEN TRUE ELSE is_valid0
        is_valid2 == IF IsStr(topic_id) /\ Len(strip(topic_id.s)) > 0
                     THEN TRUE ELSE is_valid1
    IN  is_valid2

Chars == {" ", "\t", "a"}
Strings == UNION {[1..n -> Chars] : n \in 0..MaxStrLen}
\* the strings of the documented examples: "ab" and "123"
SampleStrings == {<<"a", "b">>, <<"1", "2", "3">>}
PyValues == {None, PyInt(7)} \cup {PyStr(s) : s \in Strings \cup SampleStrings}

InitValid ==
    /\ v_op = "none"
    /\ v_query = None
    /\ v_topic_id = None
    /\ v_ret = FALSE

CallValid ==
    /\ v_op = "none"
    /\ \E query \in PyValues, topic_id \in PyValues :
        /\ v_op' = "valid_search_query"
        /\ v_query' = query
        /\ v_topic_id' = topic_id
        /\ v_ret' = valid_search_query(query, topic_id)
        /\ UNCHANGED <<qsVars, viewVars>>

ReturnValid ==
    /\ v_op # "none"
    /\ v_op' = "none"
    /\ v_query' = None
    /\ v_topic_id' = None
    /\ v_ret' = FALSE
    /\ UNCHANGED <<qsVars, viewVars>>

----------------------------------------------------------------------------
(* The request: a view, an action, and request.GET / request.query_params  *)
(* as the sequence of (key, value) pairs of the query string.              *)

Views == {"CredentialSearchView", "CredentialTopicSearchView"}

\* CredentialTopicSearchView.object_class; the base view keeps the library's default
object_class(view) ==
    IF view = "CredentialTopicSearchView" THEN "TopicSearchQuerySet" ELSE "SearchQuerySet"

ParamValues(key) ==
    CASE key = "name" -> {<<>>, <<"a">>, <<"a", "b">>, <<" ", "a">>}
      [] key = "topic_id" -> {<<>>, <<"1">>}
      [] key = "category" -> {<<>>, <<"a">>, <<"a", ":", ":", "b">>, <<"a", ":", ":", "c">>}
      [] key = "credential_type_id" -> {<<"1">>}
      [] key = "topic_credential_type_id" -> {<<"1">>}
      [] key = "issuer_id" -> {<<"1">>, <<" ", "2", " ", "3">>}

ParamKeys == {"name", "topic_id", "category", "credential_type_id",
              "topic_credential_type_id", "issuer_id"}
Params == UNION {{[key |-> k, value |-> v] : v \in ParamValues(k)} : k \in ParamKeys}
QueryStrings == UNION {[1..n -> Params] : n \in 0..MaxParams}

\* request.GET.get(key): the last value given for key, None without one
GET_get(GET, key) ==
    LET at == {i \in DOMAIN GET : GET[i].key = key}
    IN  IF at = {} THEN None
        ELSE PyStr(GET[CHOOSE i \in at : \A j \in at : j <= i].value)

RECURSIVE getlist(_, _)
\* request.query_params.getlist(key): every value given for key, in order
getlist(GET, key) ==
    IF GET = <<>> THEN <<>>
    ELSE IF Head(GET).key = key
         THEN <<Head(GET).value>> \o getlist(Tail(GET), key)
         ELSE getlist(Tail(GET), key)

----------------------------------------------------------------------------
(* Query sets: the class, the filter backends applied and the narrowing    *)
(* clauses added, each in order.                                           *)

filter_backends ==
    <<"CredNameFilter", "CategoryFilter", "ExactFilter", "StatusFilter",
      "HaystackOrderingFilter">>
facet_filter_backends ==
    <<"CredNameFilter", "ExactFilter", "StatusFilter", "CustomFacetFilter">>

NoQuerySet == [object_class |-> "none", filters |-> <<>>, narrow |-> <<>>]

get_queryset(view) ==
    [object_class |-> object_class(view), filters |-> <<>>, narrow |-> <<>>]
filter_queryset(qs) == [qs EXCEPT !.filters = @ \o filter_backends]
filter_facet_queryset(qs) == [qs EXCEPT !.filters = @ \o facet_filter_backends]
narrow(qs, clause) == [qs EXCEPT !.narrow = Append(@, clause)]
facet_counts(qs) == [counts_of |-> qs]

\* queryset.query.clean(value): split on whitespace, escape the backend's
\* reserved characters in each word, join the words with one space
RESERVED_CHARACTERS ==
    {"\\", "+", "-", "!", "(", ")", "{", "}", "[", "]", "^", "\"", "~", "*", "?", ":", "/"}

RECURSIVE split_acc(_, _)
\* str.split(): the words of s; cur is the word being read
split_acc(s, cur) ==
    IF s = <<>> THEN (IF cur = <<>> THEN <<>> ELSE <<cur>>)
    ELSE IF Head(s) \in Whitespace
         THEN (IF cur = <<>> THEN <<>> ELSE <<cur>>) \o split_acc(Tail(s), <<>>)
         ELSE split_acc(Tail(s), Append(cur, Head(s)))

RECURSIVE escape(_)
escape(word) ==
    IF word = <<>> THEN <<>>
    ELSE (IF Head(word) \in RESERVED_CHARACTERS THEN <<"\\", Head(word)>> ELSE <<Head(word)>>)
         \o escape(Tail(word))

RECURSIVE join(_)
join(words) ==
    IF words = <<>> THEN <<>>
    ELSE IF Len(words) = 1 THEN escape(Head(words))
    ELSE escape(Head(words)) \o <<" ">> \o join(Tail(words))

clean(value) == join(split_acc(value, <<>>))

\* '{}:"{}"'.format(key, cleaned): the key, then the characters that follow it
format_clause(key, cleaned) == <<key, ":", "\"">> \o cleaned \o <<"\"">>

\* does value hold the '::' separator
HasSeparator(value) ==
    \E i \in 1..(Len(value) - 1) : value[i] = ":" /\ value[i + 1] = ":"

----------------------------------------------------------------------------
(* CredentialSearchView.list                                               *)

MissingTopicParametersException ==
    [status_code |-> 400,
     detail |-> "Please provide at least a 'name' (2 characters or more) or 'topic_id'.",
     code |-> "bad_request"]

\* ListModelMixin.list: filter the query set and list it
super_list(view) ==
    [response |-> [status_code |-> 200, objects |-> filter_queryset(get_queryset(view))],
     backend_ops |-> <<"filter_queryset", "list_query">>]

\* mutant of list: the gate does not look at object_class
list_gate_every_view(view, GET) ==
    IF ~valid_search_query(GET_get(GET, "name"), GET_get(GET, "topic_id"))
    THEN [response |-> MissingTopicParametersException, backend_ops |-> <<>>]
    ELSE super_list(view)

list(view, GET) ==
    IF /\ object_class(view) = "TopicSearchQuerySet"
       /\ ~valid_search_query(GET_get(GET, "name"), GET_get(GET, "topic_id"))
    THEN [response |-> MissingTopicParametersException, backend_ops |-> <<>>]
    ELSE super_list(view)

----------------------------------------------------------------------------
(* CredentialSearchView.facets                                             *)

FacetKeys == <<"category", "credential_type_id", "topic_credential_type_id", "issuer_id">>

RECURSIVE narrow_values_skip_malformed(_, _, _)
\* mutant of narrow_values: a category value without '::' is skipped
narrow_values_skip_malformed(fq, key, values) ==
    IF values = <<>> THEN fq
    ELSE LET value == Head(values)
             skip == value = <<>> \/ (key = "category" /\ ~HasSeparator(value))
             fq1 == IF skip THEN fq ELSE narrow(fq, format_clause(key, clean(value)))
         IN  narrow_values_skip_malformed(fq1, key, Tail(values))

RECURSIVE narrow_values_keep_empty(_, _, _)
\* mutant of narrow_values: the test 'if value' is missing
narrow_values_keep_empty(fq, key, values) ==
    IF values = <<>> THEN fq
    ELSE narrow_values_keep_empty(
             narrow(fq, format_clause(key, clean(Head(values)))), key, Tail(values))

RECURSIVE narrow_values(_, _, _)
\* the inner loop: for value in request.query_params.getlist(key)
narrow_values(fq, key, values) ==
    IF values = <<>> THEN fq
    ELSE LET value == Head(values)
             fq1 == IF value # <<>>
                    THEN narrow(fq, format_clause(key, clean(value)))
                    ELSE fq
         IN  narrow_values(fq1, key, Tail(values))

RECURSIVE narrow_keys(_, _, _)
\* the outer loop: for key in (...)
narrow_keys(fq, keys, GET) ==
    IF keys = <<>> THEN fq
    ELSE narrow_keys(narrow_values(fq, Head(keys), getlist(GET, Head(keys))), Tail(keys), GET)

\* the backend operations of a facets request that added n narrowing clauses
facets_ops(n) ==
    <<"filter_facet_queryset", "filter_queryset">> \o [i \in 1..n |-> "narrow"]
        \o <<"facet_counts", "objects">>

\* mutant of facets: the narrowing is applied to the base queryset, before filtering
facets_narrow_base(view, GET) ==
    LET qs == narrow_keys(get_queryset(view), FacetKeys, GET)
        fq == filter_facet_queryset(qs)
        rq == filter_queryset(qs)
    IN  [queryset |-> qs, facet_queryset |-> fq, result_queryset |-> rq,
         response |-> [status_code |-> 200, facets |-> facet_counts(fq), objects |-> rq],
         backend_ops |-> facets_ops(Len(qs.narrow))]

facets(view, GET) ==
    LET qs == get_queryset(view)
        fq0 == filter_facet_queryset(qs)
        rq == filter_queryset(qs)
        fq == narrow_keys(fq0, FacetKeys, GET)
    IN  [queryset |-> qs, facet_queryset |-> fq, result_queryset |-> rq,
         response |-> [status_code |-> 200, facets |-> facet_counts(fq), objects |-> rq],
         backend_ops |-> facets_ops(Len(fq.narrow) - Len(fq0.narrow))]

----------------------------------------------------------------------------
(* The requests.                                                           *)

NoRequest == [view |-> "none", action |-> "none", GET |-> <<>>]

ViewIdle ==
    /\ request = NoRequest
    /\ response = [status_code |-> 0]
    /\ backend_ops = <<>>
    /\ queryset = NoQuerySet
    /\ facet_queryset = NoQuerySet
    /\ result_queryset = NoQuerySet

List ==
    /\ request = NoRequest
    /\ \E view \in Views, GET \in QueryStrings :
        LET out == list(view, GET)
        IN  /\ request' = [view |-> view, action |-> "list", GET |-> GET]
            /\ response' = out.response
            /\ backend_ops' = out.backend_ops
            /\ queryset' = NoQuerySet
            /\ facet_queryset' = NoQuerySet
            /\ result_queryset' = NoQuerySet
            /\ UNCHANGED <<qsVars, validVars>>

Facets ==
    /\ request = NoRequest
    /\ \E view \in Views, GET \in QueryStrings :
        LET out == facets(view, GET)
        IN  /\ request' = [view |-> view, action |-> "facets", GET |-> GET]
            /\ response' = out.response
            /\ backend_ops' = out.backend_ops
            /\ queryset' = out.queryset
            /\ facet_queryset' = out.facet_queryset
            /\ result_queryset' = out.result_queryset
            /\ UNCHANGED <<qsVars, validVars>>

\* the response is sent; nothing of the request is kept for the next one
Respond ==
    /\ request # NoRequest
    /\ request' = NoRequest
    /\ response' = [status_code |-> 0]
    /\ backend_ops' = <<>>
    /\ queryset' = NoQuerySet
    /\ facet_queryset' = NoQuerySet
    /\ result_queryset' = NoQuerySet
    /\ UNCHANGED <<qsVars, validVars>>

----------------------------------------------------------------------------
(* The specifications.                                                     *)

InitQS == LIMIT \in Limits /\ QSIdle /\ InitValid /\ ViewIdle
NextQS == CallLen \/ CallCount \/ CallFillCache \/ ReturnQS
SpecQS == InitQS /\ [][NextQS]_vars

Init == LIMIT = DefaultLimit /\ QSIdle /\ InitValid /\ ViewIdle

NextValid == CallValid \/ ReturnValid
SpecValid == Init /\ [][NextValid]_vars

Next == List \/ Facets \/ Respond
Spec == Init /\ [][Next]_vars

----------------------------------------------------------------------------
(* Properties of TopicSearchQuerySet, checked under SpecQS.                *)

FillCacheCalled == qs_op = "_fill_cache"

\* C1: for every ceiling LIMIT and every backend count C >= 0, __len__ and
\* count both return min(C, LIMIT): they agree and never exceed LIMIT.
C1_LenCountClamp ==
    qs_op \in {"__len__", "count"} =>
        /\ qs_ret = Min(backend_count, LIMIT)
        /\ qs_ret <= LIMIT
        /\ __len__(backend_count) = count(backend_count)

C1_Witness ==
    /\ qs_op = "count"
    /\ backend_count > LIMIT
    /\ qs_ret = LIMIT

\* C2 as claimed: whatever the caller requested (None included), every window
\* handed to the backend satisfies 0 <= start <= end <= LIMIT.
C2_Original ==
    FillCacheCalled =>
        \A i \in DOMAIN super_calls :
            LET c == super_calls[i]
            IN  /\ IsInt(c.start) /\ IsInt(c.end)
                /\ 0 <= c.start.n /\ c.start.n <= c.end.n /\ c.end.n <= LIMIT

\* C2 as amended: every bound handed to the backend that is not None lies in
\* 0..LIMIT; a bound is None exactly when the caller passed None; and when the
\* caller passed two numbers with start <= end, 0 <= start <= end <= LIMIT.
C2_DelegatedBounds ==
    FillCacheCalled =>
        \A i \in DOMAIN super_calls :
            LET c == super_calls[i]
            IN  /\ IsNone(c.start) <=> IsNone(qs_args.start)
                /\ IsNone(c.end) <=> IsNone(qs_args.end)
                /\ IsInt(c.start) => (0 <= c.start.n /\ c.start.n <= LIMIT)
                /\ IsInt(c.end) => (0 <= c.end.n /\ c.end.n <= LIMIT)
                /\ (/\ IsInt(qs_args.start) /\ IsInt(qs_args.end)
                    /\ qs_args.start.n <= qs_args.end.n)
                   => (/\ IsInt(c.start) /\ IsInt(c.end)
                       /\ c.start.n <= c.end.n)

C2_Witness ==
    /\ FillCacheCalled
    /\ IsNone(qs_args.start)
    /\ IsInt(qs_args.end) /\ qs_args.end.n > LIMIT
    /\ Len(super_calls) = 1
    /\ IsNone(super_calls[1].start)
    /\ super_calls[1].end = PyInt(LIMIT)

\* C3: for a requested window with start <= end, the delegated window's length
\* end' - start' never exceeds LIMIT; when start > LIMIT the delegated window is
\* the empty window start' = end' = LIMIT, and the call still delegates (no error).
C3_WindowLength ==
    (/\ FillCacheCalled
     /\ IsInt(qs_args.start) /\ IsInt(qs_args.end)
     /\ qs_args.start.n <= qs_args.end.n)
    => /\ Len(super_calls) = 1
       /\ super_calls[1].end.n - super_calls[1].start.n <= LIMIT
       /\ super_calls[1].end.n - super_calls[1].start.n >= 0
       /\ qs_args.start.n > LIMIT =>
              (super_calls[1].start.n = LIMIT /\ super_calls[1].end.n = LIMIT)

C3_Witness ==
    /\ FillCacheCalled
    /\ IsInt(qs_args.start) /\ IsInt(qs_args.end)
    /\ qs_args.start.n > LIMIT
    /\ qs_args.end.n > qs_args.start.n
    /\ super_calls = <<[start |-> PyInt(LIMIT), end |-> PyInt(LIMIT),
                        kwargs |-> qs_args.kwargs]>>

\* what the claim says one bound becomes
ClampedBound(b) == IF IsNone(b) THEN None ELSE PyInt(Min(b.n, LIMIT))

\* C9: _fill_cache delegates exactly once; a bound that is not None becomes
\* min(bound, LIMIT), a None bound stays None, the keyword arguments are passed
\* unchanged, and a bound already <= LIMIT is not altered.
C9_ClampEachBound ==
    FillCacheCalled =>
        /\ Len(super_calls) = 1
        /\ super_calls[1].start = ClampedBound(qs_args.start)
        /\ super_calls[1].end = ClampedBound(qs_args.end)
        /\ super_calls[1].kwargs = qs_args.kwargs
        /\ (IsInt(qs_args.start) /\ qs_args.start.n <= LIMIT)
               => super_calls[1].start = qs_args.start
        /\ (IsInt(qs_args.end) /\ qs_args.end.n <= LIMIT)
               => super_calls[1].end = qs_args.end

C9_Witness ==
    /\ FillCacheCalled
    /\ qs_args.kwargs = {"load_all"}
    /\ IsInt(qs_args.start) /\ qs_args.start.n < LIMIT
    /\ IsInt(qs_args.end) /\ qs_args.end.n > LIMIT
    /\ super_calls = <<[start |-> qs_args.start, end |-> PyInt(LIMIT),
                        kwargs |-> {"load_all"}]>>

----------------------------------------------------------------------------
(* Properties of valid_search_query, checked under SpecValid.              *)

\* the length of s without its leading and trailing whitespace, counted from
\* the positions of its first and last non-whitespace characters
TrimmedLen(s) ==
    LET nw == {i \in DOMAIN s : s[i] \notin Whitespace}
    IN  IF nw = {} THEN 0
        ELSE (CHOOSE i \in nw : \A j \in nw : j <= i)
             - (CHOOSE i \in nw : \A j \in nw : i <= j) + 1

ClaimedValid(term, topic_id) ==
    \/ IsStr(term) /\ TrimmedLen(term.s) >= 2
    \/ IsStr(topic_id) /\ TrimmedLen(topic_id.s) >= 1

\* C4: valid_search_query(term, topic_id) is true exactly when term is a string
\* of trimmed length >= 2 or topic_id is a string of trimmed length >= 1;
\* valid("ab", "") and valid("", "123") are true; valid("a", ""), valid(" ", " ")
\* and valid(None, None) are false.
C4_ValidIff ==
    v_op = "valid_search_query" =>
        /\ v_ret = ClaimedValid(v_query, v_topic_id)
        /\ (v_query = PyStr(<<"a", "b">>) /\ v_topic_id = PyStr(<<>>)) => v_ret = TRUE
        /\ (v_query = PyStr(<<"a">>) /\ v_topic_id = PyStr(<<>>)) => v_ret = FALSE
        /\ (v_query = PyStr(<<>>) /\ v_topic_id = PyStr(<<"1", "2", "3">>)) => v_ret = TRUE
        /\ (v_query = PyStr(<<" ">>) /\ v_topic_id = PyStr(<<" ">>)) => v_ret = FALSE
        /\ (v_query = None /\ v_topic_id = None) => v_ret = FALSE
        /\ (~IsStr(v_query) /\ ~IsStr(v_topic_id)) => v_ret = FALSE

C4_Witness ==
    /\ v_op = "valid_search_query"
    /\ v_query = PyStr(<<" ", "a", "\t">>)
    /\ v_topic_id = PyStr(<<" ", "\t">>)
    /\ v_ret = FALSE

----------------------------------------------------------------------------
(* Properties of the views, checked under Spec.                            *)

TopicMode == object_class(request.view) = "TopicSearchQuerySet"
RequestValid ==
    valid_search_query(GET_get(request.GET, "name"), GET_get(request.GET, "topic_id"))
BackendInvoked == backend_ops # <<>>

\* C5: in list, a topic-mode request whose name and topic_id fail
\* valid_search_query ends in MissingTopicParametersException (400, the fixed
\* message) with no backend operation; every other list request reaches the
\* backend list query without that error.
C5_ListGate ==
    request.action = "list" =>
        IF TopicMode /\ ~RequestValid
        THEN /\ response =
                  [status_code |-> 400,
                   detail |-> "Please provide at least a 'name' (2 characters or more) or 'topic_id'.",
                   code |-> "bad_request"]
             /\ ~BackendInvoked
        ELSE /\ response.status_code = 200
             /\ \E i \in DOMAIN backend_ops : backend_ops[i] = "list_query"

C5_Witness ==
    /\ request.action = "list"
    /\ TopicMode
    /\ GET_get(request.GET, "name") = PyStr(<<" ", "a">>)
    /\ GET_get(request.GET, "topic_id") = PyStr(<<>>)
    /\ response.status_code = 400
    /\ ~BackendInvoked

\* C6 as claimed: on every request path of the topic-oriented view, list and
\* facets alike, no backend operation occurs when valid(name, topic_id) is false.
C6_GateOnEveryPath ==
    (TopicMode /\ request.action \in {"list", "facets"} /\ ~RequestValid)
        => ~BackendInvoked

\* C7: in facets the 'objects' of the response is result_queryset, the base
\* queryset with the full filter backends applied; no narrowing clause reaches
\* result_queryset or the base queryset, only facet_queryset, whose counts are
\* the 'facets' of the response.
C7_ObjectsNotNarrowed ==
    request.action = "facets" =>
        /\ response.objects = result_queryset
        /\ result_queryset =
               [object_class |-> object_class(request.view),
                filters |-> filter_backends, narrow |-> <<>>]
        /\ queryset =
               [object_class |-> object_class(request.view),
                filters |-> <<>>, narrow |-> <<>>]
        /\ response.facets = [counts_of |-> facet_queryset]
        /\ facet_queryset.filters = facet_filter_backends

C7_Witness ==
    /\ request.action = "facets"
    /\ Len(facet_queryset.narrow) = 2
    /\ response.objects.narrow = <<>>
    /\ response.facets.counts_of.narrow = facet_queryset.narrow

\* a category value that is not empty and lacks the '::' separator
Malformed(param) ==
    param.key = "category" /\ param.value # <<>> /\ ~HasSeparator(param.value)
WellFormed(param) == ~Malformed(param)

\* the clauses the claims expect for one key: one per non-empty value, in the
\* order supplied
ClausesFor(GET, key) ==
    LET Supplied(param) == param.key = key /\ param.value # <<>>
        given == SelectSeq(GET, Supplied)
    IN  [i \in 1..Len(given) |-> <<key, ":", "\"">> \o clean(given[i].value) \o <<"\"">>]

ExpectedClauses(GET) ==
    ClausesFor(GET, "category") \o ClausesFor(GET, "credential_type_id")
        \o ClausesFor(GET, "topic_credential_type_id") \o ClausesFor(GET, "issuer_id")

\* C8 as claimed: a category value lacking '::' adds no narrowing clause, so
\* the facet query is the one the request would get without that parameter.
C8_Original ==
    request.action = "facets" =>
        /\ response.status_code = 200
        /\ facet_queryset.narrow = ExpectedClauses(SelectSeq(request.GET, WellFormed))

\* C8 as amended: a category value lacking '::' raises no error, and it is not
\* ignored: like every other non-empty value it adds the clause
\* category:"cleaned value" to the facet query; only empty values add none.
C8_MalformedNarrows ==
    request.action = "facets" =>
        /\ response.status_code = 200
        /\ \A i \in DOMAIN request.GET :
               Malformed(request.GET[i]) =>
                   \E j \in DOMAIN facet_queryset.narrow :
                       facet_queryset.narrow[j] =
                           <<"category", ":", "\"">> \o clean(request.GET[i].value) \o <<"\"">>
        /\ Cardinality({j \in DOMAIN facet_queryset.narrow :
                            facet_queryset.narrow[j][1] = "category"})
               = Cardinality({i \in DOMAIN request.GET :
                                  /\ request.GET[i].key = "category"
                                  /\ request.GET[i].value # <<>>})

C8_Witness ==
    /\ request.action = "facets"
    /\ request.GET = <<[key |-> "category", value |-> <<"a">>]>>
    /\ response.status_code = 200
    /\ facet_queryset.narrow = << <<"category", ":", "\"", "a", "\"">> >>

\* C10: the clauses added to facet_queryset are exactly one key:"cleaned value"
\* per non-empty value of category, credential_type_id,
\* topic_credential_type_id, issuer_id, in that key order and in the order the
\* values were supplied; empty values and other parameters add none.
C10_NarrowClauses ==
    request.action = "facets" =>
        facet_queryset.narrow = ExpectedClauses(request.GET)

C10_Witness ==
    /\ request.action = "facets"
    /\ request.GET = <<[key |-> "issuer_id", value |-> <<" ", "2", " ", "3">>],
                       [key |-> "category", value |-> <<"a", ":", ":", "c">>],
                       [key |-> "category", value |-> <<"a", ":", ":", "b">>]>>
    /\ facet_queryset.narrow =
           << <<"category", ":", "\"", "a", "\\", ":", "\\", ":", "c", "\"">>,
              <<"category", ":", "\"", "a", "\\", ":", "\\", ":", "b", "\"">>,
              <<"issuer_id", ":", "\"", "2", " ", "3", "\"">> >>

====
